---------------------------- MODULE Spec2Model ----------------------------
(***************************************************************************)
(* Model of the coding reliability analyzer.                               *)
(*                                                                         *)
(*   src/coding_quality_checker_EN.py         validate_data,               *)
(*       calculate_ai_human_disagreement_rate,                             *)
(*       calculate_inter_rater_reliability, analyze_coding_agreement       *)
(*   src/statistical_comparison_analyzer_EN.py  save_results_optimized     *)
(*                                                                         *)
(* A pandas DataFrame is a record                                          *)
(*     [columns |-> column labels, index |-> row labels, rows |-> rows]    *)
(* whose rows are sequences aligned with columns.  Column labels of a file *)
(* read with header=None are 0, 1, 2, ...; the label 'comment' is          *)
(* CommentLabel.  A missing cell (NaN) is the value NaN.                   *)
(*                                                                         *)
(* cohen_kappa_score is a library call: the model records which pairs of   *)
(* columns it is applied to, not the coefficients.  A float that is a      *)
(* quotient of two integers is the pair <<numerator, denominator>>.        *)
(***************************************************************************)
EXTENDS Integers, Sequences, FiniteSets, TLC

VARIABLES
    tool,          \* which entry point this behaviour exercises
    pc,            \* position inside the running function
    input,         \* the arguments and the file system the caller supplies
    df,            \* local df of the running function
    ai_columns,    \* local ai_columns (a sequence of column labels)
    human_column,  \* local human_column (a column label)
    human_codes,   \* local human_codes of analyze_coding_agreement
    exc,           \* the exception that left the function, or NoExc
    console,       \* what has been printed
    reliability,   \* value of calculate_inter_rater_reliability
    files,         \* the output files on disk
    ret            \* the value returned

vars == << tool, pc, input, df, ai_columns, human_column, human_codes, exc,
           console, reliability, files, ret >>

---------------------------------------------------------------------------
(* Bounds of the model *)

MaxFnRows == 2
MaxFnCols == 3

---------------------------------------------------------------------------
(* Values *)

NaN == "NaN"
NoExc == "none"
Unbound == "unbound"
Nothing == <<>>
CommentLabel == -1
FinalCodingLabel == -2
Placeholder == "No comment available"

\* valid_categories=['a', 'b']
ValidCategories == {"a", "b"}

Min(x, y) == IF x < y THEN x ELSE y

\* The strictly increasing sequences over 0..(w-1): the selections of columns
\* of a table of width w, in table order.
RECURSIVE IncreasingSeqs(_, _)
IncreasingSeqs(lo, w) ==
    IF lo >= w THEN { <<>> }
    ELSE IncreasingSeqs(lo + 1, w)
         \cup { <<lo>> \o s : s \in IncreasingSeqs(lo + 1, w) }

\* The tables pd.read_csv(header=None) can give: width w, at most n rows.
Frame(w, rows) ==
    [ columns |-> [k \in 1..w |-> k - 1],
      index   |-> [i \in 1..Len(rows) |-> i - 1],
      rows    |-> rows ]

TablesOf(values, w, n) ==
    UNION { [1..m -> [1..w -> values]] : m \in 0..n }

---------------------------------------------------------------------------
(* DataFrame access *)

HasCol(d, col) == \E p \in 1..Len(d.columns) : d.columns[p] = col

ColPos(d, col) == CHOOSE p \in 1..Len(d.columns) : d.columns[p] = col

\* row[col] of the i-th row (label based)
Cell(d, i, col) == d.rows[i][ColPos(d, col)]

\* df[ai_columns].values[i]
AiRow(d, cols, i) == [k \in 1..Len(cols) |-> Cell(d, i, cols[k])]

\* df.get('comment', pd.Series(["No comment available"] * len(df))).values
Comments(d) ==
    [i \in 1..Len(d.rows) |->
        IF HasCol(d, CommentLabel) THEN Cell(d, i, CommentLabel) ELSE Placeholder]

---------------------------------------------------------------------------
(* calculate_ai_human_disagreement_rate *)

AllAiDisagree(ai_row, human_code) ==
    \A k \in 1..Len(ai_row) : ai_row[k] # human_code

\* any(ai_code != human_code for ai_code in ai_row)
AnyAiDisagrees(ai_row, human_code) ==
    \E k \in 1..Len(ai_row) : ai_row[k] # human_code

RateUnguarded(count, total) == << count, total >>

\* disagreement_count / total_cases if total_cases > 0 else 0.0
RateOf(count, total) ==
    IF total > 0 THEN << count, total >> ELSE << 0, 1 >>

\* The loop of lines 35-42 from row i on, with the count and the list so far.
RECURSIVE DisagreementLoop(_, _, _, _, _, _)
DisagreementLoop(d, cols, hcol, i, count, acc) ==
    IF i > Len(d.rows) THEN [count |-> count, list |-> acc]
    ELSE LET human_code == Cell(d, i, hcol)
             ai_row     == AiRow(d, cols, i)
         IN  IF AnyAiDisagrees(ai_row, human_code)
             THEN DisagreementLoop(d, cols, hcol, i + 1, count + 1,
                      Append(acc, [idx |-> i, comment |-> Comments(d)[i],
                                   ai_codes |-> ai_row,
                                   human_code |-> human_code]))
             ELSE DisagreementLoop(d, cols, hcol, i + 1, count, acc)

calculate_ai_human_disagreement_rate(d, cols, hcol) ==
    LET total_cases == Len(d.rows)
        loop        == DisagreementLoop(d, cols, hcol, 1, 0, <<>>)
    IN  [ disagreement_rate      |-> RateOf(loop.count, total_cases),
          disagreement_count     |-> loop.count,
          total_cases            |-> total_cases,
          ai_human_disagreements |-> loop.list ]

---------------------------------------------------------------------------
(* calculate_inter_rater_reliability *)

\* The codes of the row counted without set(): len(ai_codes[i]) > 1
MoreThanOneCode(ai_row) ==
    Len(ai_row) > 1

\* len(set(ai_codes[i])) > 1
AisDisagree(ai_row) ==
    Cardinality({ ai_row[k] : k \in 1..Len(ai_row) }) > 1

RECURSIVE InternalLoop(_, _, _, _)
InternalLoop(d, cols, i, acc) ==
    IF i > Len(d.rows) THEN acc
    ELSE IF AisDisagree(AiRow(d, cols, i))
         THEN InternalLoop(d, cols, i + 1,
                  Append(acc, [idx |-> i, comment |-> Comments(d)[i],
                               ai_codes |-> AiRow(d, cols, i)]))
         ELSE InternalLoop(d, cols, i + 1, acc)

\* The pairs of columns whose Kappa line 55 computes: (human, AI i).
InterPairs(cols, hcol) == [k \in 1..Len(cols) |-> << hcol, cols[k] >>]

\* The pairs of lines 60-62: (AI i, AI j) for i < j, in loop order.
RECURSIVE IntraPairs(_, _, _)
IntraPairs(cols, i, j) ==
    IF i > Len(cols) THEN <<>>
    ELSE IF j > Len(cols) THEN IntraPairs(cols, i + 1, i + 2)
         ELSE << << cols[i], cols[j] >> >> \o IntraPairs(cols, i, j + 1)

calculate_inter_rater_reliability(d, cols, hcol) ==
    [ inter_pairs                |-> InterPairs(cols, hcol),
      intra_pairs                |-> IntraPairs(cols, 1, 2),
      ai_internal_disagreements  |-> InternalLoop(d, cols, 1, <<>>),
      ai_human_disagreement_info |->
          calculate_ai_human_disagreement_rate(d, cols, hcol) ]

---------------------------------------------------------------------------
(* validate_data *)

\* all(row[col] in valid_categories for col in sel), evaluated left to right
\* from position k of sel: "true", "false", or "KeyError" when row[col] names
\* a column the frame does not have.
RECURSIVE AllValid(_, _, _, _, _)
AllValid(d, sel, valid, i, k) ==
    IF k > Len(sel) THEN "true"
    ELSE IF ~HasCol(d, sel[k]) THEN "KeyError"
    ELSE IF Cell(d, i, sel[k]) \notin valid THEN "false"
    ELSE AllValid(d, sel, valid, i, k + 1)

\* The loop of lines 17-21 from row i on; sel is ai_columns + [human_column].
RECURSIVE ValidateLoop(_, _, _, _)
ValidateLoop(d, sel, valid, i) ==
    IF i > Len(d.rows) THEN [kind |-> "ok"]
    ELSE LET all == AllValid(d, sel, valid, i, 1)
         IN  IF all = "true" THEN ValidateLoop(d, sel, valid, i + 1)
             ELSE IF all = "KeyError"
                     \/ \E k \in 1..Len(sel) : ~HasCol(d, sel[k])
                  THEN [kind |-> "KeyError"]
                  ELSE [kind |-> "invalid", row |-> d.index[i] + 1,
                        values |-> [k \in 1..Len(sel) |-> Cell(d, i, sel[k])]]

validate_data(d, cols, hcol, valid) ==
    ValidateLoop(d, cols \o << hcol >>, valid, 1)

---------------------------------------------------------------------------
(* analyze_coding_agreement: the steps between reading and computing *)

DefaultAiCount == 5
ShownCases == 5

\* df.empty
Empty(d) == Len(d.rows) = 0 \/ Len(d.columns) = 0

\* ai_columns = df.columns[:5].tolist() when ai_columns is None
SelectAi(d, p) ==
    IF p.ai_given THEN p.ai
    ELSE SubSeq(d.columns, 1, Min(DefaultAiCount, Len(d.columns)))

\* human_column = df.columns[-1] when human_column is None
SelectHuman(d, p) ==
    IF p.human_given THEN p.human ELSE d.columns[Len(d.columns)]

\* all(col in df.columns for col in ai_columns + [human_column])
SelectorsExist(d, cols, hcol) ==
    /\ \A k \in 1..Len(cols) : HasCol(d, cols[k])
    /\ HasCol(d, hcol)

\* Lines 128-129: the last column is taken for the comment column when the
\* table is wider than the raters plus one, its label is truthy (not 0) and
\* it is not the human column.
RenamesComment(d, cols, hcol) ==
    /\ Len(d.columns) > Len(cols) + 1
    /\ d.columns[Len(d.columns)] # 0
    /\ d.columns[Len(d.columns)] # hcol

\* Lines 129-132
WithComment(d, cols, hcol) ==
    IF RenamesComment(d, cols, hcol)
    THEN [d EXCEPT !.columns[Len(d.columns)] = CommentLabel]
    ELSE [d EXCEPT !.columns = Append(d.columns, CommentLabel),
                   !.rows = [i \in 1..Len(d.rows) |-> Append(d.rows[i], Placeholder)]]

\* df.dropna(subset=sel): the rows with no missing value in sel, labels kept.
RECURSIVE KeptRows(_, _, _)
KeptRows(d, sel, i) ==
    IF i > Len(d.rows) THEN <<>>
    ELSE IF \E k \in 1..Len(sel) : Cell(d, i, sel[k]) = NaN
         THEN KeptRows(d, sel, i + 1)
         ELSE << i >> \o KeptRows(d, sel, i + 1)

DropNa(d, sel) ==
    LET kept == KeptRows(d, sel, 1)
    IN  [d EXCEPT !.index = [j \in 1..Len(kept) |-> d.index[kept[j]]],
                  !.rows  = [j \in 1..Len(kept) |-> d.rows[kept[j]]]]

\* df.loc[label, col]: answers only for a row label the frame has.
HasLabel(d, label) == \E i \in 1..Len(d.index) : d.index[i] = label

Loc(d, label, col) ==
    Cell(d, CHOOSE i \in 1..Len(d.index) : d.index[i] = label, col)

\* some_list[:5]
FirstShown(list) == SubSeq(list, 1, Min(ShownCases, Len(list)))

---------------------------------------------------------------------------
(* analyze_coding_agreement as a run: one action per stretch of the function *)
(* that ends in a raise, a write or the return.                              *)

NoFile == [state |-> "absent"]

Raise(e) ==
    /\ pc' = "raised"
    /\ exc' = e

\* Line 98-99: the path does not exist.
FileMissing ==
    /\ tool = "run"
    /\ pc = "start"
    /\ input.fileKind = "missing"
    /\ Raise("FileNotFoundError")
    /\ UNCHANGED << tool, input, df, ai_columns, human_column, human_codes,
                    console, reliability, files, ret >>

\* Lines 102-113: pd.read_csv raises (a parse error, or a decode error under
\* utf-8 and again under gbk) and the function raises Exception.
ReadFails ==
    /\ tool = "run"
    /\ pc = "start"
    /\ input.fileKind \in {"unparsable", "undecodable"}
    /\ Raise("Exception: cannot read file")
    /\ UNCHANGED << tool, input, df, ai_columns, human_column, human_codes,
                    console, reliability, files, ret >>

\* Lines 102-109: the table is read, under utf-8 or on the gbk retry.
ReadFile ==
    /\ tool = "run"
    /\ pc = "start"
    /\ input.fileKind \in {"utf8", "gbk"}
    /\ df' = input.table
    /\ pc' = "loaded"
    /\ UNCHANGED << tool, input, ai_columns, human_column, human_codes, exc,
                    console, reliability, files, ret >>

\* Lines 115-116
EmptyTable ==
    /\ tool = "run"
    /\ pc = "loaded"
    /\ Empty(df)
    /\ Raise("ValueError: File is empty")
    /\ UNCHANGED << tool, input, df, ai_columns, human_column, human_codes,
                    console, reliability, files, ret >>

\* Lines 118-125 with a selector that names no column of the table.
SelectorMissing ==
    /\ tool = "run"
    /\ pc = "loaded"
    /\ ~Empty(df)
    /\ ~SelectorsExist(df, SelectAi(df, input), SelectHuman(df, input))
    /\ ai_columns' = SelectAi(df, input)
    /\ human_column' = SelectHuman(df, input)
    /\ Raise("ValueError: columns not in the data")
    /\ UNCHANGED << tool, input, df, human_codes, console, reliability,
                    files, ret >>

SelectColumnsOpensReport ==
    /\ tool = "run"
    /\ pc = "loaded"
    /\ ~Empty(df)
    /\ SelectorsExist(df, SelectAi(df, input), SelectHuman(df, input))
    /\ ai_columns' = SelectAi(df, input)
    /\ human_column' = SelectHuman(df, input)
    /\ df' = WithComment(df, SelectAi(df, input), SelectHuman(df, input))
    /\ files' = [files EXCEPT !.report =
           [state |-> "partial", total_cases |-> 0, ai_human |-> <<>>, internal |-> <<>>]]
    /\ pc' = "selected"
    /\ UNCHANGED << tool, input, human_codes, exc, console, reliability, ret >>

\* Lines 118-132: the selectors are resolved and the comment column is set.
SelectColumns ==
    /\ tool = "run"
    /\ pc = "loaded"
    /\ ~Empty(df)
    /\ SelectorsExist(df, SelectAi(df, input), SelectHuman(df, input))
    /\ ai_columns' = SelectAi(df, input)
    /\ human_column' = SelectHuman(df, input)
    /\ df' = WithComment(df, SelectAi(df, input), SelectHuman(df, input))
    /\ pc' = "selected"
    /\ UNCHANGED << tool, input, human_codes, exc, console, reliability,
                    files, ret >>

\* Lines 134-136 when validate_data does not return True: it prints the
\* offending row and returns False (ValueError), or row[col] raises KeyError.
ValidateFails ==
    /\ tool = "run"
    /\ pc = "selected"
    /\ LET v == validate_data(df, ai_columns, human_column, ValidCategories)
       IN  /\ v.kind # "ok"
           /\ IF v.kind = "invalid"
              THEN /\ console' = [console EXCEPT !.validation =
                                     [row |-> v.row, values |-> v.values]]
                   /\ Raise("ValueError: Invalid data format")
              ELSE /\ console' = console
                   /\ Raise("KeyError")
    /\ UNCHANGED << tool, input, df, ai_columns, human_column, human_codes,
                    reliability, files, ret >>

\* Lines 134-141 when validate_data returns True: rows with a missing value
\* in a selected column are dropped, and an empty result raises.
ValidatePasses ==
    /\ tool = "run"
    /\ pc = "selected"
    /\ validate_data(df, ai_columns, human_column, ValidCategories).kind = "ok"
    /\ LET clean == DropNa(df, ai_columns \o << human_column >>)
       IN  /\ df' = clean
           /\ IF Empty(clean)
              THEN Raise("ValueError: No valid data after removing missing values")
              ELSE pc' = "validated" /\ exc' = exc
    /\ UNCHANGED << tool, input, ai_columns, human_column, human_codes,
                    console, reliability, files, ret >>

\* Lines 146-202: the reliability is computed, final_coding is added and the
\* summary is printed with the first five cases of each list.
Compute ==
    /\ tool = "run"
    /\ pc = "validated"
    /\ LET r == calculate_inter_rater_reliability(df, ai_columns, human_column)
       IN  /\ reliability' = r
           /\ df' = [df EXCEPT
                 !.columns = Append(df.columns, FinalCodingLabel),
                 !.rows = [i \in 1..Len(df.rows) |->
                              Append(df.rows[i], Cell(df, i, human_column))]]
           /\ console' = [console EXCEPT
                 !.ai_human = FirstShown(r.ai_human_disagreement_info.ai_human_disagreements),
                 !.internal = FirstShown(r.ai_internal_disagreements)]
    /\ pc' = "computed"
    /\ UNCHANGED << tool, input, ai_columns, human_column, human_codes,
                    exc, files, ret >>

ReportHumanCasesFirstShown(r) ==
    [j \in 1..Min(ShownCases, Len(r.ai_human_disagreement_info.ai_human_disagreements)) |->
        LET c == r.ai_human_disagreement_info.ai_human_disagreements[j]
        IN  [idx |-> c.idx, ai_codes |-> c.ai_codes, human_code |-> c.human_code,
             comment |-> c.comment, final_code |-> c.human_code]]

\* The case sections of the report file, lines 237-257.
ReportHumanCases(r) ==
    [j \in 1..Len(r.ai_human_disagreement_info.ai_human_disagreements) |->
        LET c == r.ai_human_disagreement_info.ai_human_disagreements[j]
        IN  [idx |-> c.idx, ai_codes |-> c.ai_codes, human_code |-> c.human_code,
             comment |-> c.comment, final_code |-> c.human_code]]

ReportInternalCases(d, hcol, r) ==
    [j \in 1..Len(r.ai_internal_disagreements) |->
        LET c == r.ai_internal_disagreements[j]
        IN  [idx |-> c.idx, ai_codes |-> c.ai_codes,
             human_code |-> Loc(d, c.idx - 1, hcol),
             comment |-> c.comment, final_code |-> Loc(d, c.idx - 1, hcol)]]

\* Lines 204-257 without a failure: the whole report is written, unless
\* df.loc finds no row labelled idx-1 (KeyError, the file left as written so
\* far).
WriteReport ==
    /\ tool = "run"
    /\ pc = "computed"
    /\ IF \A j \in 1..Len(reliability.ai_internal_disagreements) :
             HasLabel(df, reliability.ai_internal_disagreements[j].idx - 1)
       THEN /\ files' = [files EXCEPT !.report =
                   [state |-> "complete",
                    total_cases |-> reliability.ai_human_disagreement_info.total_cases,
                    ai_human |-> ReportHumanCases(reliability),
                    internal |-> ReportInternalCases(df, human_column, reliability)]]
            /\ pc' = "reported"
            /\ exc' = exc
       ELSE /\ files' = [files EXCEPT !.report =
                   [state |-> "partial",
                    total_cases |-> reliability.ai_human_disagreement_info.total_cases,
                    ai_human |-> ReportHumanCases(reliability),
                    internal |-> <<>>]]
            /\ Raise("KeyError")
    /\ UNCHANGED << tool, input, df, ai_columns, human_column, human_codes,
                    console, reliability, ret >>

\* Lines 205-206 and on: open() or a write raises OSError.  Nothing in the
\* function handles it.  The failure hits at open (no file) or after the
\* summary lines (a file without its case sections).
WriteReportFails ==
    /\ tool = "run"
    /\ pc = "computed"
    /\ \E at \in {"open", "write"} :
          files' = [files EXCEPT !.report =
              IF at = "open" THEN NoFile
              ELSE [state |-> "partial",
                    total_cases |-> reliability.ai_human_disagreement_info.total_cases,
                    ai_human |-> <<>>, internal |-> <<>>]]
    /\ Raise("OSError")
    /\ UNCHANGED << tool, input, df, ai_columns, human_column, human_codes,
                    console, reliability, ret >>

\* The rows of result_df, lines 261-272, given human_codes and ai_codes.
CsvRows(d, cols, hcol, hcodes) ==
    [i \in 1..Len(d.rows) |->
        LET ai_row == AiRow(d, cols, i)
        IN  [row |-> d.index[i],
             final_coding |-> Cell(d, i, FinalCodingLabel),
             ai_human_agreement |->
                 (Len(ai_row) > 0 /\ hcodes[i] = ai_row[1] /\ ~AisDisagree(ai_row)),
             ai_internal_agreement |-> ~AisDisagree(ai_row),
             comment |-> Cell(d, i, CommentLabel),
             coders |-> [k \in 1..(Len(cols) + 1) |-> Cell(d, i, (cols \o << hcol >>)[k])]]]

\* Lines 259-279.  The comprehension of line 263 reads human_codes, which is
\* assigned only on line 269: with at least one row it raises NameError
\* (UnboundLocalError), before to_csv and before the return.
WriteCsv ==
    /\ tool = "run"
    /\ pc = "reported"
    /\ IF Len(df.rows) > 0 /\ human_codes = Unbound
       THEN /\ Raise("NameError")
            /\ UNCHANGED << human_codes, files, ret >>
       ELSE /\ human_codes' = [i \in 1..Len(df.rows) |-> Cell(df, i, human_column)]
            /\ files' = [files EXCEPT !.csv =
                   [state |-> "complete",
                    rows |-> CsvRows(df, ai_columns, human_column, human_codes)]]
            /\ ret' = [df |-> df, reliability |-> reliability]
            /\ pc' = "done"
            /\ exc' = exc
    /\ UNCHANGED << tool, input, df, ai_columns, human_column, console,
                    reliability >>

---------------------------------------------------------------------------
(* Runs of analyze_coding_agreement *)

MaxRows == 2
MaxReportRows == 6

\* Cell values of the files of Spec: a valid code, a value that is no
\* category, and a missing value.
RunValues == {"a", "c", NaN}

Selectors(ai_given, ai, human_given, human) ==
    [ai_given |-> ai_given, ai |-> ai, human_given |-> human_given, human |-> human]

\* (ai_columns, human_column) arguments for a table of three columns: the
\* defaults; two raters and the last column; one rater, the reference and a
\* comment column; the last column as the only rater; a reference column and
\* a rater column the table does not have.
RunSelectors ==
    { Selectors(FALSE, <<>>, FALSE, 0),
      Selectors(TRUE, <<0, 1>>, TRUE, 2),
      Selectors(TRUE, <<0>>, TRUE, 1),
      Selectors(TRUE, <<2>>, TRUE, 0),
      Selectors(TRUE, <<0, 1>>, TRUE, 3),
      Selectors(TRUE, <<0, 3>>, FALSE, 0) }

\* Rows of the files of SpecReport: two raters and a reference code.
ReportRows ==
    { <<"a", "a", "a">>, <<"a", "b", "a">>, <<"b", "a", "a">>, <<"b", "b", "a">> }

ReportSelectors ==
    { Selectors(FALSE, <<>>, FALSE, 0),
      Selectors(TRUE, <<0, 1>>, TRUE, 2) }

InitRun(kinds, tables, selectors) ==
    /\ tool = "run"
    /\ pc = "start"
    /\ \E k \in kinds : \E p \in selectors :
          \E t \in (IF k \in {"utf8", "gbk"} THEN tables ELSE { Nothing }) :
             input = [fileKind |-> k, table |-> t, ai_given |-> p.ai_given,
                      ai |-> p.ai, human_given |-> p.human_given, human |-> p.human]
    /\ df = Nothing
    /\ ai_columns = Nothing
    /\ human_column = Nothing
    /\ human_codes = Unbound
    /\ exc = NoExc
    /\ console = [validation |-> Nothing, ai_human |-> <<>>, internal |-> <<>>]
    /\ reliability = Nothing
    /\ files = [report |-> NoFile, csv |-> NoFile]
    /\ ret = Nothing

\* Every file state, every table of three columns over RunValues with at
\* most MaxRows rows, every selector choice of RunSelectors.
Init ==
    InitRun({"missing", "unparsable", "undecodable", "utf8", "gbk"},
            { Frame(3, rows) : rows \in TablesOf(RunValues, 3, MaxRows) },
            RunSelectors)

Next ==
    \/ FileMissing
    \/ ReadFails
    \/ ReadFile
    \/ EmptyTable
    \/ SelectorMissing
    \/ SelectColumns
    \/ ValidateFails
    \/ ValidatePasses
    \/ Compute
    \/ WriteReport
    \/ WriteReportFails
    \/ WriteCsv

Spec == Init /\ [][Next]_vars

\* Readable files of valid codes with up to MaxReportRows rows: the runs that
\* reach the report.
InitReport ==
    InitRun({"utf8"},
            { Frame(3, rows) : rows \in UNION { [1..m -> ReportRows] : m \in 1..MaxReportRows } },
            ReportSelectors)

NextReport ==
    \/ ReadFile
    \/ SelectColumns
    \/ ValidatePasses
    \/ Compute
    \/ WriteReport
    \/ WriteReportFails
    \/ WriteCsv

SpecReport == InitReport /\ [][NextReport]_vars

---------------------------------------------------------------------------
(* save_results_optimized (statistical_comparison_analyzer_EN.py)            *)
(*                                                                           *)
(* A p-value is [nan |-> BOOLEAN, v |-> p * 10000].  A report line is         *)
(* [label, p, marker]; marker is NoMarker on a line that prints none, and a  *)
(* line that prints no p-value has p = NoP.                                  *)

P(v) == [nan |-> FALSE, v |-> v]
NanP == [nan |-> TRUE, v |-> 0]
NoP == [nan |-> TRUE, v |-> -1]
NoMarker == ""

\* self.get_significance_symbol: three tiers and "not significant".
get_significance_symbol(p) ==
    IF p.nan THEN "ns"
    ELSE IF p.v < 10 THEN "***"
    ELSE IF p.v < 100 THEN "**"
    ELSE IF p.v < 500 THEN "*"
    ELSE "ns"

Line(label, p, marker) == [label |-> label, p |-> p, marker |-> marker]

\* all_results.get('disagreement_rates', [0, 0, 0, 0, 0, 0, np.nan, np.nan])
DisagreementRates(r) ==
    IF r.rates = "absent" THEN [len |-> 8, p |-> NanP]
    ELSE IF r.rates = "short" THEN [len |-> 7, p |-> NoP]
    ELSE [len |-> 8, p |-> r.rates_p]

\* all_results.get('corrected_p_values', [comp[1], comp[4], rates[7] or nan])
CorrectedP(r) ==
    IF r.corrected_given THEN r.corrected
    ELSE << r.inter_p, r.intra_p,
            IF DisagreementRates(r).len >= 8 THEN DisagreementRates(r).p ELSE NanP >>

CorrectedLinesOfRawP(r) ==
    << Line("inter_corrected", CorrectedP(r)[1], get_significance_symbol(r.inter_p)),
       Line("intra_corrected", CorrectedP(r)[2], get_significance_symbol(r.intra_p)),
       Line("rate_corrected", CorrectedP(r)[3],
            get_significance_symbol(DisagreementRates(r).p)) >>

\* Lines 83-85
CorrectedLines(r) ==
    << Line("inter_corrected", CorrectedP(r)[1], get_significance_symbol(CorrectedP(r)[1])),
       Line("intra_corrected", CorrectedP(r)[2], get_significance_symbol(CorrectedP(r)[2])),
       Line("rate_corrected", CorrectedP(r)[3], get_significance_symbol(CorrectedP(r)[3])) >>

\* Lines 75-80
RawLines(r) ==
    << Line("inter_t_test", r.inter_p, NoMarker),
       Line("intra_t_test", r.intra_p, NoMarker),
       IF DisagreementRates(r).len >= 8
       THEN Line("rate_z_test", DisagreementRates(r).p, NoMarker)
       ELSE Line("rate_cannot_compute", NoP, NoMarker) >>

\* Lines 87-88; comp[6] and comp[7] exist only in a comp of 8 entries.
MannWhitneyLines(r) ==
    << Line("inter_mann_whitney", r.inter_u_p, get_significance_symbol(r.inter_u_p)),
       Line("intra_mann_whitney", r.intra_u_p, get_significance_symbol(r.intra_u_p)) >>

\* Lines 70-88: the lines written before an IndexError, if any, stops them.
ComparisonLines(r) ==
    IF ~r.has_comparison THEN <<>>
    ELSE IF r.comp_len >= 8
         THEN RawLines(r) \o CorrectedLines(r) \o MannWhitneyLines(r)
         ELSE RawLines(r) \o CorrectedLines(r)

\* Lines 24-88 run to the end of the with block.
SaveWritesReport ==
    /\ tool = "cmp"
    /\ pc = "start"
    /\ input.has_results
    /\ input.has_comparison => input.comp_len >= 8
    /\ files' = [files EXCEPT !.report =
           [state |-> "complete", prompts |-> <<1, 2>>, lines |-> ComparisonLines(input)]]
    /\ pc' = "report_written"
    /\ UNCHANGED << tool, input, df, ai_columns, human_column, human_codes,
                    exc, console, reliability, ret >>

\* Lines 24-88 stopped by an exception of the data: all_results lacks a key
\* of the per-file loop (KeyError), or comp is too short (IndexError).  The
\* handlers of lines 93-98 print it and the function returns.
SaveReportDataError ==
    /\ tool = "cmp"
    /\ pc = "start"
    /\ ~input.has_results \/ (input.has_comparison /\ input.comp_len < 8)
    /\ files' = [files EXCEPT !.report =
           IF ~input.has_results
           THEN [state |-> "partial", prompts |-> <<>>, lines |-> <<>>]
           ELSE [state |-> "partial", prompts |-> <<1, 2>>, lines |-> ComparisonLines(input)]]
    /\ console' = [console EXCEPT !.error =
           IF ~input.has_results THEN "Error saving results" ELSE "Index error while saving results"]
    /\ pc' = "returned"
    /\ UNCHANGED << tool, input, df, ai_columns, human_column, human_codes,
                    exc, reliability, ret >>

\* open() or a write of lines 24-88 raises OSError: caught by line 96.
SaveReportWriteFails ==
    /\ tool = "cmp"
    /\ pc = "start"
    /\ \E at \in {"open", "write"} :
          files' = [files EXCEPT !.report =
              IF at = "open" THEN NoFile
              ELSE [state |-> "partial", prompts |-> <<>>, lines |-> <<>>]]
    /\ console' = [console EXCEPT !.error = "Error saving results"]
    /\ pc' = "returned"
    /\ UNCHANGED << tool, input, df, ai_columns, human_column, human_codes,
                    exc, reliability, ret >>

\* Lines 90-92
SaveWritesCsv ==
    /\ tool = "cmp"
    /\ pc = "report_written"
    /\ files' = [files EXCEPT !.csv = [state |-> "complete"]]
    /\ pc' = "returned"
    /\ UNCHANGED << tool, input, df, ai_columns, human_column, human_codes,
                    exc, console, reliability, ret >>

\* to_csv of line 90 raises OSError: caught by line 96.
SaveCsvWriteFails ==
    /\ tool = "cmp"
    /\ pc = "report_written"
    /\ console' = [console EXCEPT !.error = "Error saving results"]
    /\ pc' = "returned"
    /\ UNCHANGED << tool, input, df, ai_columns, human_column, human_codes,
                    exc, reliability, files, ret >>

\* The p-values of the inputs: one of each significance tier.
PValues == { P(5), P(50), P(300), P(5000) }

\* all_results as save_results_optimized reads it.
InitCmp ==
    /\ tool = "cmp"
    /\ pc = "start"
    /\ \E has_results \in BOOLEAN, has_comparison \in BOOLEAN, comp_len \in {6, 8},
          inter_p \in PValues, intra_p \in PValues,
          inter_u_p \in {P(5), P(300)}, intra_u_p \in {P(50), P(5000)},
          rates \in {"absent", "short", "given"}, rates_p \in {P(50), P(5000)},
          corrected_given \in BOOLEAN,
          corrected \in { << a, b, c >> : a \in {P(300), P(5000)}, b \in {P(50), P(5000)},
                                          c \in {P(5000)} } :
          /\ (~has_results \/ ~has_comparison) =>
                (comp_len = 8 /\ inter_p = P(5) /\ intra_p = P(5) /\ inter_u_p = P(5)
                 /\ intra_u_p = P(50) /\ ~corrected_given)
          /\ ~corrected_given => corrected = << P(5000), P(5000), P(5000) >>
          /\ rates # "given" => rates_p = P(50)
          /\ input = [has_results |-> has_results, has_comparison |-> has_comparison,
                      comp_len |-> comp_len, inter_p |-> inter_p, intra_p |-> intra_p,
                      inter_u_p |-> inter_u_p, intra_u_p |-> intra_u_p,
                      rates |-> rates, rates_p |-> rates_p,
                      corrected_given |-> corrected_given, corrected |-> corrected]
    /\ df = Nothing
    /\ ai_columns = Nothing
    /\ human_column = Nothing
    /\ human_codes = Unbound
    /\ exc = NoExc
    /\ console = [error |-> ""]
    /\ reliability = Nothing
    /\ files = [report |-> NoFile, csv |-> NoFile]
    /\ ret = Nothing

NextCmp ==
    \/ SaveWritesReport
    \/ SaveReportDataError
    \/ SaveReportWriteFails
    \/ SaveWritesCsv
    \/ SaveCsvWriteFails

SpecCmp == InitCmp /\ [][NextCmp]_vars

---------------------------------------------------------------------------
(* The two calculators called on their own: every table of codes of width   *)
(* at most MaxFnCols with at most MaxFnRows rows, every selection of rater  *)
(* columns and every reference column.                                      *)

InitFn ==
    /\ tool = "fn"
    /\ pc = "call"
    /\ input = Nothing
    /\ \E w \in 1..MaxFnCols :
         /\ df \in { Frame(w, rows) : rows \in TablesOf(ValidCategories, w, MaxFnRows) }
         /\ ai_columns \in IncreasingSeqs(0, w)
         /\ human_column \in 0..(w - 1)
    /\ human_codes = Unbound
    /\ exc = NoExc
    /\ console = Nothing
    /\ reliability = Nothing
    /\ files = Nothing
    /\ ret = Nothing

FnDisagreementRate ==
    /\ tool = "fn"
    /\ pc = "call"
    /\ pc' = "rate_returned"
    /\ ret' = calculate_ai_human_disagreement_rate(df, ai_columns, human_column)
    /\ UNCHANGED << tool, input, df, ai_columns, human_column, human_codes,
                    exc, console, reliability, files >>

FnInterRater ==
    /\ tool = "fn"
    /\ pc = "call"
    /\ pc' = "reliability_returned"
    /\ ret' = calculate_inter_rater_reliability(df, ai_columns, human_column)
    /\ UNCHANGED << tool, input, df, ai_columns, human_column, human_codes,
                    exc, console, reliability, files >>

NextFn == FnDisagreementRate \/ FnInterRater

SpecFn == InitFn /\ [][NextFn]_vars

---------------------------------------------------------------------------
(* Claims about the calculators *)

IdxOf(list) == [j \in 1..Len(list) |-> list[j].idx]

StrictlyIncreasing(s) == \A j \in 1..Len(s) : \A k \in 1..Len(s) : j < k => s[j] < s[k]

ExampleTable ==
    Frame(4, << <<"a", "a", "a", "a">>, <<"a", "b", "a", "a">>,
                <<"b", "b", "b", "b">>, <<"a", "a", "b", "a">> >>)

\* C1: calculate_ai_human_disagreement_rate lists the 1-based index of a row
\* iff some rater code of the row differs from the row's reference code; the
\* list is in row order, holds each such row once, and disagreement_count is
\* its length.  The 4-row example gives rows 2 and 4, count 2.
C1_DisagreementList ==
    /\ pc = "rate_returned" =>
        LET idx == IdxOf(ret.ai_human_disagreements)
        IN  /\ \A i \in 1..Len(df.rows) :
                  (\E j \in 1..Len(idx) : idx[j] = i)
                  <=> (\E k \in 1..Len(ai_columns) :
                          df.rows[i][ai_columns[k] + 1] # df.rows[i][human_column + 1])
            /\ \A j \in 1..Len(idx) : idx[j] \in 1..Len(df.rows)
            /\ StrictlyIncreasing(idx)
            /\ ret.disagreement_count = Len(ret.ai_human_disagreements)
    /\ LET ex == calculate_ai_human_disagreement_rate(ExampleTable, <<0, 1, 2>>, 3)
       IN  /\ IdxOf(ex.ai_human_disagreements) = <<2, 4>>
           /\ ex.disagreement_count = 2

C1_Witness ==
    /\ pc = "rate_returned"
    /\ Len(ret.ai_human_disagreements) = 2
    /\ Len(ai_columns) >= 2
    /\ \E i \in 1..Len(df.rows) : \E k \in 1..Len(ai_columns) :
          /\ df.rows[i][ai_columns[k] + 1] # df.rows[i][human_column + 1]
          /\ \E m \in 1..Len(ai_columns) :
                df.rows[i][ai_columns[m] + 1] = df.rows[i][human_column + 1]

\* C2: calculate_inter_rater_reliability lists a row (1-based) as an internal
\* disagreement iff its rater codes take more than one distinct value,
\* whatever the row's reference code.
C2_InternalDisagreementList ==
    pc = "reliability_returned" =>
        LET idx == IdxOf(ret.ai_internal_disagreements)
        IN  /\ \A i \in 1..Len(df.rows) :
                  (\E j \in 1..Len(idx) : idx[j] = i)
                  <=> (\E k \in 1..Len(ai_columns) : \E m \in 1..Len(ai_columns) :
                          df.rows[i][ai_columns[k] + 1] # df.rows[i][ai_columns[m] + 1])
            /\ \A j \in 1..Len(idx) : idx[j] \in 1..Len(df.rows)
            /\ StrictlyIncreasing(idx)

\* A row whose raters agree with each other and differ from the reference is
\* not listed; a row whose raters differ is listed.
C2_Witness ==
    /\ pc = "reliability_returned"
    /\ Len(ai_columns) >= 2
    /\ \E k \in 1..Len(ai_columns) : ai_columns[k] # human_column
    /\ \E i \in 1..Len(df.rows) :
          /\ \A k \in 1..Len(ai_columns) :
                df.rows[i][ai_columns[k] + 1] # df.rows[i][human_column + 1]
          /\ \A j \in 1..Len(ret.ai_internal_disagreements) :
                ret.ai_internal_disagreements[j].idx # i
    /\ Len(ret.ai_internal_disagreements) >= 1

---------------------------------------------------------------------------
(* Claims about runs of analyze_coding_agreement *)

\* The selected columns of the table read from the file, by position.
Selected == ai_columns \o << human_column >>

InputCell(i, col) == input.table.rows[i][col + 1]

InputRows == 1..Len(input.table.rows)

\* The selectors have been resolved against a table that was read.
Resolved ==
    /\ tool = "run"
    /\ pc \in {"selected", "validated", "computed", "reported", "done"}
       \/ (pc = "raised" /\ exc \in {"ValueError: Invalid data format", "KeyError",
                "ValueError: No valid data after removing missing values",
                "OSError", "NameError"})

OffendingRow(i) ==
    \E k \in 1..Len(Selected) : InputCell(i, Selected[k]) \notin ValidCategories

MissingRow(i) ==
    \E k \in 1..Len(Selected) : InputCell(i, Selected[k]) = NaN

WrongCategoryRow(i) ==
    \E k \in 1..Len(Selected) :
        /\ InputCell(i, Selected[k]) \notin ValidCategories
        /\ InputCell(i, Selected[k]) # NaN

ValidationErrors ==
    { "ValueError: Invalid data format",
      "ValueError: No valid data after removing missing values" }

LoadErrors ==
    { "FileNotFoundError", "Exception: cannot read file",
      "ValueError: File is empty", "ValueError: columns not in the data" }

Computed == DOMAIN reliability # {}

\* C4: validation stops at the first row holding a value outside the valid
\* categories: the run fails with the validation error that names that row
\* (1-based) and its values, and validation succeeds only if every selected
\* value of every row is a valid category.
C4_FailFastValidation ==
    Resolved /\ pc # "selected" =>
        /\ (\E i \in InputRows : OffendingRow(i)) =>
              LET first == CHOOSE i \in InputRows :
                              OffendingRow(i) /\ \A j \in 1..(i - 1) : ~OffendingRow(j)
              IN  /\ pc = "raised"
                  /\ exc = "ValueError: Invalid data format"
                  /\ console.validation =
                        [row |-> first,
                         values |-> [k \in 1..Len(Selected) |-> InputCell(first, Selected[k])]]
        /\ (pc # "raised" \/ exc \in {"OSError", "NameError"}) =>
              \A i \in InputRows : ~OffendingRow(i)

\* C5: a row with a missing value in a selected column is dropped, not
\* rejected: the run ends in a validation error only if some row holds a value
\* of a wrong category or dropping the rows with missing values leaves no row.
C5_MissingRowsDropped ==
    (Resolved /\ pc = "raised" /\ exc \in ValidationErrors) =>
        \/ \E i \in InputRows : WrongCategoryRow(i)
        \/ \A i \in InputRows : MissingRow(i)

\* C6: a run that ends in a load or validation failure has created no output
\* file, and an output file exists only for an input that passed every load
\* and validation step.
C6_NoOutputBeforeValidation ==
    tool = "run" =>
        /\ (pc = "raised" /\ exc \in LoadErrors \cup ValidationErrors \cup {"KeyError"}) =>
              (files.report = NoFile /\ files.csv = NoFile)
        /\ (files.report # NoFile \/ files.csv # NoFile) =>
              /\ input.fileKind \in {"utf8", "gbk"}
              /\ Len(input.table.rows) > 0
              /\ \A k \in 1..Len(Selected) : Selected[k] \in 0..(Len(input.table.columns) - 1)
              /\ \A i \in InputRows : ~OffendingRow(i)

C6_Witness ==
    /\ tool = "run"
    /\ pc = "raised"
    /\ exc = "ValueError: Invalid data format"
    /\ console.validation.row = 2
    /\ files.report = NoFile
    /\ files.csv = NoFile

\* C7: a run whose input passed loading and validation, and whose writes did
\* not fail, ends by having written the report and then the CSV (one row per
\* case, final coding equal to the reference code) and returns the table and
\* the reliability results.
C7_BothArtifactsWritten ==
    (tool = "run" /\ Computed /\ pc \in {"raised", "done"} /\ exc # "OSError") =>
        /\ pc = "done"
        /\ files.report.state = "complete"
        /\ files.csv.state = "complete"
        /\ Len(files.csv.rows) = Len(df.rows)
        /\ \A i \in 1..Len(df.rows) :
              files.csv.rows[i].final_coding = InputCell(i, human_column)
        /\ DOMAIN ret # {}

\* C8: a failure while writing the report or the CSV never propagates out of
\* the function that writes.
C8_WriteFailureCaught ==
    ~(pc = "raised" /\ exc = "OSError")

\* The rows of the file whose raters do not all agree with the reference,
\* and those whose raters do not all agree with each other.
HumanDisagreementRows ==
    { i \in InputRows : \E k \in 1..Len(ai_columns) :
          InputCell(i, ai_columns[k]) # InputCell(i, human_column) }

InternalDisagreementRows ==
    { i \in InputRows : \E k \in 1..Len(ai_columns) : \E m \in 1..Len(ai_columns) :
          InputCell(i, ai_columns[k]) # InputCell(i, ai_columns[m]) }

\* s lists the members of S once each, in increasing order
Enumerates(s, S) ==
    /\ { s[j] : j \in 1..Len(s) } = S
    /\ StrictlyIncreasing(s)

\* s lists the first n members of S, or all of them when S has fewer
EnumeratesFirst(s, S, n) ==
    /\ StrictlyIncreasing(s)
    /\ Len(s) = Min(n, Cardinality(S))
    /\ \A j \in 1..Len(s) : s[j] \in S /\ Cardinality({ i \in S : i < s[j] }) = j - 1

\* C9 as stated: the report file enumerates at most the first 5 cases of
\* each disagreement category.
C9_ReportShowsFirstFive ==
    (tool = "run" /\ files.report.state = "complete") =>
        /\ Len(files.report.ai_human) <= 5
        /\ Len(files.report.internal) <= 5

\* C9 as amended: the report file enumerates every case of each disagreement
\* category, in row order, however many there are; only the printed summary
\* is limited to the first 5 cases of each category.
C9_ReportListsEveryCase ==
    (tool = "run" /\ files.report.state = "complete") =>
        /\ Enumerates(IdxOf(files.report.ai_human), HumanDisagreementRows)
        /\ Enumerates(IdxOf(files.report.internal), InternalDisagreementRows)
        /\ EnumeratesFirst(IdxOf(console.ai_human), HumanDisagreementRows, 5)
        /\ EnumeratesFirst(IdxOf(console.internal), InternalDisagreementRows, 5)

C9_Witness ==
    /\ tool = "run"
    /\ files.report.state = "complete"
    /\ Len(files.report.ai_human) = 6
    /\ Len(files.report.internal) = 6
    /\ Len(console.ai_human) = 5
    /\ Len(console.internal) = 5

---------------------------------------------------------------------------
(* Claims about the comparison report *)

PLines == { j \in 1..Len(files.report.lines) : files.report.lines[j].p # NoP }

MarkedLabels ==
    { "inter_corrected", "intra_corrected", "rate_corrected",
      "inter_mann_whitney", "intra_mann_whitney" }

RawLabels == { "inter_t_test", "intra_t_test", "rate_z_test" }

\* The significance tiers, stated on the p-value itself.
Tier(p) ==
    CASE p.nan -> "ns"
      [] ~p.nan /\ p.v < 10 -> "***"
      [] ~p.nan /\ 10 <= p.v /\ p.v < 100 -> "**"
      [] ~p.nan /\ 100 <= p.v /\ p.v < 500 -> "*"
      [] OTHER -> "ns"

\* C10 as stated: every line of the comparison report that shows a p-value,
\* raw or corrected, also shows the significance marker of that p-value.
C10_EveryPValueMarked ==
    (tool = "cmp" /\ files.report.state # "absent") =>
        \A j \in PLines :
            /\ files.report.lines[j].marker # NoMarker
            /\ files.report.lines[j].marker = Tier(files.report.lines[j].p)

\* C10 as amended: the three Benjamini-Hochberg corrected lines and the two
\* Mann-Whitney U lines show the significance marker of the p-value they
\* show; the raw t-test and Z-test lines show their p-value without a marker.
C10_CorrectedAndUMarked ==
    (tool = "cmp" /\ files.report.state # "absent") =>
        \A j \in PLines :
            LET l == files.report.lines[j]
            IN  /\ l.label \in MarkedLabels \cup RawLabels
                /\ l.label \in MarkedLabels => l.marker = Tier(l.p)
                /\ l.label \in RawLabels => l.marker = NoMarker

C10_Witness ==
    /\ tool = "cmp"
    /\ pc = "returned"
    /\ files.report.state = "complete"
    /\ Len(files.report.lines) = 8
    /\ \E j \in PLines : \E k \in PLines :
          /\ files.report.lines[j].label = "inter_t_test"
          /\ files.report.lines[k].label = "inter_corrected"
          /\ Tier(files.report.lines[j].p) # Tier(files.report.lines[k].p)

---------------------------------------------------------------------------
(* Claims about the column selection of analyze_coding_agreement *)

\* The columns of the table read from the file that lie beyond the rater
\* columns and are not the reference column.
BeyondRaters ==
    { c \in 0..(Len(input.table.columns) - 1) :
        /\ c # human_column
        /\ \A k \in 1..Len(ai_columns) : ai_columns[k] < c }

\* C11: once the selectors are resolved, if the table has a column beyond
\* the rater columns that is not the reference column, that column (and no
\* other) is renamed to 'comment' and the comment of every row is the row's
\* value in it; otherwise the table gets a 'comment' column holding the
\* placeholder string in every row.
C11_CommentColumn ==
    (tool = "run" /\ pc = "selected") =>
        IF BeyondRaters # {}
        THEN \E c \in BeyondRaters :
                /\ df.columns = [input.table.columns EXCEPT ![c + 1] = CommentLabel]
                /\ df.rows = input.table.rows
                /\ Comments(df) = [i \in InputRows |-> InputCell(i, c)]
        ELSE /\ df.columns = Append(input.table.columns, CommentLabel)
             /\ df.rows = [i \in InputRows |-> Append(input.table.rows[i], Placeholder)]

\* C12: with the default selectors, once the columns are selected the
\* reference column is none of the rater columns, and no Kappa of the
\* reference against a rater pairs the reference column with itself.
C12_ReferenceNotARater ==
    (Resolved /\ ~input.ai_given /\ ~input.human_given) =>
        /\ \A k \in 1..Len(ai_columns) : ai_columns[k] # human_column
        /\ Computed =>
              \A k \in 1..Len(reliability.inter_pairs) :
                  reliability.inter_pairs[k] # << human_column, human_column >>

===========================================================================
